---- MODULE Spec2Model ----
(***************************************************************************)
(* The batch pipeline of preprocess.py: barriers are bucketed into a grid  *)
(* index, every stop is joined with the barriers of the 3x3 block of cells *)
(* around it, the matches are summarised into a StopRecord, and the        *)
(* StopRecords are rolled up per neighborhood and per route.               *)
(*                                                                         *)
(* Coordinates are fixed-point: one unit is 0.0001 degree, so GRID_SIZE    *)
(* (0.001) is 10 units and the proximity threshold (0.0005) is 5 units.    *)
(* Quotients are rounded as Python's round() does, half to even.           *)
(* Barrier ids, stop ids and route codes are opaque strings in the source; *)
(* they are naturals here, route codes ordered as their strings are.       *)
(***************************************************************************)
EXTENDS Integers, Sequences, FiniteSets, TLC

VARIABLES hash_seed,        \* the string hash seed of the interpreter process
          previous,         \* the artifacts of the run before this one, if any
          threshold,        \* the literal 0.0005 of the bounding-box test
          barriers,         \* rows of the barrier CSV, in file order
          stops,            \* rows of the stop CSV, in file order
          routes,           \* rows of the stop/route CSV, in file order
          pc,               \* position of main()
          route_map,        \* stop id -> set of route codes
          barrier_grid,     \* cell key -> list of barrier rows
          nearby_barriers,  \* raw match list of the stop joined last
          counted,          \* rows of that list that reached line 81
          stop_data,        \* the StopRecords built so far
          nbh_agg,          \* neighborhood buckets, in insertion order
          neighborhoods_out,
          route_agg,        \* route buckets, in insertion order
          routes_out,
          written           \* artifacts written so far, in order

vars == <<hash_seed, previous, threshold, barriers, stops, routes, pc, route_map,
          barrier_grid, nearby_barriers, counted, stop_data, nbh_agg,
          neighborhoods_out, route_agg, routes_out, written>>

----------------------------------------------------------------------------
(* Program constants *)

GRID_SIZE == 10

Threshold == 5

MinSeverity == 3

None == "None"

----------------------------------------------------------------------------
(* Bounds of the checked input families *)

MaxBarriers == 2

NumStops == 2

GeoStopMax == 6

MaxThreshold == 12

MaxLabelled == 3

----------------------------------------------------------------------------
(* Generic helpers. A fold over a list halves its range, and evaluates the *)
(* left half before it descends into the right one, so that the depth of  *)
(* the evaluation is logarithmic in the length.                           *)

Abs(x) == IF x < 0 THEN -x ELSE x

\* Python's round(n / d) for d > 0: nearest integer, ties to the even one.
RoundHalfEven(n, d) ==
  LET q == n \div d
      r == n % d
  IN  IF 2 * r < d THEN q
      ELSE IF 2 * r > d THEN q + 1
      ELSE IF q % 2 = 0 THEN q ELSE q + 1

RECURSIVE SumOver(_, _)
\* sum of f[x] over the finite set S
SumOver(f, S) ==
  IF S = {} THEN 0
  ELSE LET x == CHOOSE y \in S : TRUE IN f[x] + SumOver(f, S \ {x})

Min(S) == CHOOSE x \in S : \A y \in S : x <= y

RECURSIVE Ascending(_)
\* the members of a set of naturals as a list, the smallest first
Ascending(S) == IF S = {} THEN <<>> ELSE <<Min(S)>> \o Ascending(S \ {Min(S)})

Reverse(s) == [i \in 1..Len(s) |-> s[Len(s) + 1 - i]]

\* The order in which a set of strings is iterated follows the hashes of its
\* members, which the interpreter salts with a seed drawn per process: one
\* order under seed 0, the opposite one under seed 1.
HashSeeds == {0, 1}

IterationOrder(S) == IF hash_seed = 0 THEN Reverse(Ascending(S)) ELSE Ascending(S)

\* list.sort(key=..., reverse=True) is stable and descending: entry i goes
\* behind every entry already placed whose key is at least its own.
\* `perm` lists the positions placed so far, `keys[i]` is the key of entry i.
InsertDesc(perm, i, keys) ==
  LET n == Cardinality({j \in 1..Len(perm) : keys[perm[j]] >= keys[i]})
  IN  SubSeq(perm, 1, n) \o <<i>> \o SubSeq(perm, n + 1, Len(perm))

RECURSIVE SortPerm(_, _, _)
SortPerm(perm, keys, i) ==
  IF i > Len(keys) THEN perm ELSE SortPerm(InsertDesc(perm, i, keys), keys, i + 1)

SortDesc(s, keys) ==
  LET perm == SortPerm(<<>>, keys, 1) IN [i \in 1..Len(s) |-> s[perm[i]]]

\* the members of the set in iteration order, with no sorted() around them
SortedKeepsIterationOrder(S) == IterationOrder(S)

\* Python's sorted() of a set of naturals: the list of its members in
\* iteration order, sorted stably in ascending order
Sorted(S) ==
  LET l == IterationOrder(S) IN SortDesc(l, [i \in 1..Len(l) |-> 0 - l[i]])

Range(s) == {s[i] : i \in 1..Len(s)}

RECURSIVE SeqsUpTo(_, _)
\* all sequences over S of length at most n
SeqsUpTo(S, n) ==
  IF n = 0 THEN {<<>>}
  ELSE LET shorter == SeqsUpTo(S, n - 1)
       IN  shorter \cup {Append(q, x) : q \in {t \in shorter : Len(t) = n - 1}, x \in S}

----------------------------------------------------------------------------
(* Conversions *)

\* A coordinate cell holds the number float() makes of its text. NoFloat
\* stands for a cell float() raises ValueError on: an empty cell, or text
\* that is no numeral. It lies outside the range of every coordinate.
NoFloat == 10000000

IsFloat(x) == x # NoFloat

\* the severity strings int() accepts; it raises ValueError on any other
IsInt(s) == s \in {"1", "2", "3", "4", "5"}

\* int(sev_str) for the integer strings of the severity column
IntOf(s) ==
  CASE s = "1" -> 1 [] s = "2" -> 2 [] s = "3" -> 3 [] s = "4" -> 4 [] s = "5" -> 5

\* str(k) for the severities 1..5
StrOf(k) ==
  CASE k = 1 -> "1" [] k = 2 -> "2" [] k = 3 -> "3" [] k = 4 -> "4" [] k = 5 -> "5"

\* lexicographic rank of the barrier type labels used
LabelRank(l) == CASE l = "CurbRamp" -> 1 [] l = "NoCurbRamp" -> 2 [] l = "Obstacle" -> 3

\* sorted() of a set of type labels
SortedLabels(S) ==
  LET ranks == Sorted({LabelRank(x) : x \in S})
  IN  [i \in 1..Len(ranks) |-> CHOOSE x \in S : LabelRank(x) = ranks[i]]

----------------------------------------------------------------------------
(* grid_key, lines 20-21 *)

grid_key(lon, lat) == <<RoundHalfEven(lon, GRID_SIZE), RoundHalfEven(lat, GRID_SIZE)>>

----------------------------------------------------------------------------
(* Route lookup, lines 33-35 *)

RouteMapAdd(m, r) ==
  IF r.STOP_ID \in DOMAIN m
  THEN [m EXCEPT ![r.STOP_ID] = @ \cup {r.ROUTE_NUM}]
  ELSE m @@ (r.STOP_ID :> {r.ROUTE_NUM})

RECURSIVE BuildRouteMapFrom(_, _, _, _)
\* RouteMapAdd folded over rs[lo..hi], left to right
BuildRouteMapFrom(m, rs, lo, hi) ==
  IF lo > hi THEN m
  ELSE IF lo = hi THEN RouteMapAdd(m, rs[lo])
  ELSE LET mid  == (lo + hi) \div 2
           left == BuildRouteMapFrom(m, rs, lo, mid)
       IN  IF DOMAIN left = DOMAIN left THEN BuildRouteMapFrom(left, rs, mid + 1, hi) ELSE left

\* route_map.get(stop_id, [])
RoutesOf(m, stop_id) == IF stop_id \in DOMAIN m THEN m[stop_id] ELSE {}

----------------------------------------------------------------------------
(* Spatial index, lines 39-44 *)

EmptyMap == [x \in {} |-> <<>>]

\* the insertion with the bucket replaced instead of extended
IndexInsertOverwrites(g, b) ==
  LET key == grid_key(b.lon, b.lat)
  IN  IF key \in DOMAIN g
      THEN [g EXCEPT ![key] = <<b>>]
      ELSE g @@ (key :> <<b>>)

IndexInsert(g, b) ==
  LET key == grid_key(b.lon, b.lat)
  IN  IF key \in DOMAIN g
      THEN [g EXCEPT ![key] = Append(@, b)]
      ELSE g @@ (key :> <<b>>)

RECURSIVE BuildGridFrom(_, _, _, _)
\* IndexInsert folded over bs[lo..hi], left to right
BuildGridFrom(g, bs, lo, hi) ==
  IF lo > hi THEN g
  ELSE IF lo = hi THEN IndexInsert(g, bs[lo])
  ELSE LET mid  == (lo + hi) \div 2
           left == BuildGridFrom(g, bs, lo, mid)
       IN  IF DOMAIN left = DOMAIN left THEN BuildGridFrom(left, bs, mid + 1, hi) ELSE left

----------------------------------------------------------------------------
(* Proximity join, lines 55-64 *)

\* the bounding-box test of line 63
InBox(b, lon, lat, thr) == Abs(b.lon - lon) <= thr /\ Abs(b.lat - lat) <= thr

\* barrier_grid.get(cell, [])
Bucket(g, cell) == IF cell \in DOMAIN g THEN g[cell] ELSE <<>>

\* the dict after barrier_grid[cell]: a defaultdict adds a missing key
GridAfterSubscript(g, cell) == IF cell \in DOMAIN g THEN g ELSE g @@ (cell :> <<>>)

\* the dict after barrier_grid.get(cell, []): get() adds no key
GridAfterGet(g, cell) == g

\* the nine cells of lines 57-59, in the order the loops visit them
ScanCells(lon, lat) ==
  LET center == grid_key(lon, lat)
  IN  [i \in 1..9 |-> <<center[1] + ((i - 1) \div 3) - 1, center[2] + ((i - 1) % 3) - 1>>]

RECURSIVE GridAfterScan(_, _, _)
\* the dict after the lookups of the cells cells[i..]
GridAfterScan(g, cells, i) ==
  IF i > Len(cells) THEN g
  ELSE GridAfterScan(GridAfterGet(g, cells[i]), cells, i + 1)

\* lines 60-64 for one cell
CellMatches(g, cell, lon, lat, thr) ==
  SelectSeq(Bucket(g, cell), LAMBDA b : InBox(b, lon, lat, thr))

\* the scan without the column dx = -1
NearbyBarriersNoLeftColumn(g, lon, lat, thr) ==
  LET center == grid_key(lon, lat)
      Column(dx) ==
        CellMatches(g, <<center[1] + dx, center[2] - 1>>, lon, lat, thr)
          \o CellMatches(g, <<center[1] + dx, center[2]>>, lon, lat, thr)
          \o CellMatches(g, <<center[1] + dx, center[2] + 1>>, lon, lat, thr)
  IN  Column(0) \o Column(1)

\* lines 55-64: dx outermost, dy inside it, the bucket's order innermost
NearbyBarriers(g, lon, lat, thr) ==
  LET center == grid_key(lon, lat)
      Column(dx) ==
        CellMatches(g, <<center[1] + dx, center[2] - 1>>, lon, lat, thr)
          \o CellMatches(g, <<center[1] + dx, center[2]>>, lon, lat, thr)
          \o CellMatches(g, <<center[1] + dx, center[2] + 1>>, lon, lat, thr)
  IN  Column(-1) \o Column(0) \o Column(1)

----------------------------------------------------------------------------
(* Stop aggregation, lines 67-103 *)

EmptyAcc ==
  [severity_counts |-> [k \in {} |-> 0],
   barrier_types   |-> {},
   barrier_ids     |-> {},
   neighborhoods   |-> <<>>,
   counted         |-> <<>>]

\* severity_counts[sev] += 1 on a defaultdict(int)
Incr(f, k) == IF k \in DOMAIN f THEN [f EXCEPT ![k] = @ + 1] ELSE f @@ (k :> 1)

\* neighborhoods[nbh] += 1 on a defaultdict(int); a list of buckets in
\* insertion order stands for the dict
Vote(ns, nbh) ==
  IF \E i \in 1..Len(ns) : ns[i].name = nbh
  THEN [i \in 1..Len(ns) |->
          IF ns[i].name = nbh THEN [ns[i] EXCEPT !.n = @ + 1] ELSE ns[i]]
  ELSE Append(ns, [name |-> nbh, n |-> 1])

\* the loop body without the is_temporary test of lines 73-74
CountBarrierKeepsTemporary(acc, b) ==
  IF b.attribute_id \in acc.barrier_ids THEN acc
  ELSE IF b.severity = "" THEN acc
  ELSE [severity_counts |-> Incr(acc.severity_counts, IntOf(b.severity)),
        barrier_types   |-> acc.barrier_types \cup {b.label_type},
        barrier_ids     |-> acc.barrier_ids \cup {b.attribute_id},
        neighborhoods   |-> IF b.neighborhood # ""
                            THEN Vote(acc.neighborhoods, b.neighborhood)
                            ELSE acc.neighborhoods,
        counted         |-> Append(acc.counted, b)]

\* the loop body with barrier_types.add(...) moved above the tests
CountBarrierTypesFirst(acc, b) ==
  LET seen == [acc EXCEPT !.barrier_types = @ \cup {b.label_type}]
  IN  IF b.is_temporary = "true" THEN seen
      ELSE IF b.attribute_id \in acc.barrier_ids THEN seen
      ELSE IF b.severity = "" THEN seen
      ELSE [severity_counts |-> Incr(acc.severity_counts, IntOf(b.severity)),
            barrier_types   |-> seen.barrier_types,
            barrier_ids     |-> acc.barrier_ids \cup {b.attribute_id},
            neighborhoods   |-> IF b.neighborhood # ""
                                THEN Vote(acc.neighborhoods, b.neighborhood)
                                ELSE acc.neighborhoods,
            counted         |-> Append(acc.counted, b)]

\* the loop body without the duplicate test of lines 76-77
CountBarrierNoDedup(acc, b) ==
  IF b.is_temporary = "true" THEN acc
  ELSE IF b.severity = "" THEN acc
  ELSE [severity_counts |-> Incr(acc.severity_counts, IntOf(b.severity)),
        barrier_types   |-> acc.barrier_types \cup {b.label_type},
        barrier_ids     |-> acc.barrier_ids \cup {b.attribute_id},
        neighborhoods   |-> IF b.neighborhood # ""
                            THEN Vote(acc.neighborhoods, b.neighborhood)
                            ELSE acc.neighborhoods,
        counted         |-> Append(acc.counted, b)]

\* the loop body with barrier_ids.add(bid) moved above the severity test
CountBarrierAddsIdEarly(acc, b) ==
  IF b.is_temporary = "true" THEN acc
  ELSE IF b.attribute_id \in acc.barrier_ids THEN acc
  ELSE IF b.severity = ""
       THEN [acc EXCEPT !.barrier_ids = @ \cup {b.attribute_id}]
  ELSE [severity_counts |-> Incr(acc.severity_counts, IntOf(b.severity)),
        barrier_types   |-> acc.barrier_types \cup {b.label_type},
        barrier_ids     |-> acc.barrier_ids \cup {b.attribute_id},
        neighborhoods   |-> IF b.neighborhood # ""
                            THEN Vote(acc.neighborhoods, b.neighborhood)
                            ELSE acc.neighborhoods,
        counted         |-> Append(acc.counted, b)]

\* the body of the loop of lines 72-87 for one row of the match list
CountBarrier(acc, b) ==
  IF b.is_temporary = "true" THEN acc
  ELSE IF b.attribute_id \in acc.barrier_ids THEN acc
  ELSE IF b.severity = "" THEN acc
  ELSE [severity_counts |-> Incr(acc.severity_counts, IntOf(b.severity)),
        barrier_types   |-> acc.barrier_types \cup {b.label_type},
        barrier_ids     |-> acc.barrier_ids \cup {b.attribute_id},
        neighborhoods   |-> IF b.neighborhood # ""
                            THEN Vote(acc.neighborhoods, b.neighborhood)
                            ELSE acc.neighborhoods,
        counted         |-> Append(acc.counted, b)]

RECURSIVE CountAll(_, _, _, _)
\* CountBarrier folded over bs[lo..hi], left to right
CountAll(acc, bs, lo, hi) ==
  IF lo > hi THEN acc
  ELSE IF lo = hi THEN CountBarrier(acc, bs[lo])
  ELSE LET mid  == (lo + hi) \div 2
           left == CountAll(acc, bs, lo, mid)
       IN  IF DOMAIN left = DOMAIN left THEN CountAll(left, bs, mid + 1, hi) ELSE left

\* int(sev_str) of line 82 is reached with a string it rejects
IntRaises(acc, b) ==
  /\ b.is_temporary # "true"
  /\ b.attribute_id \notin acc.barrier_ids
  /\ b.severity # ""
  /\ ~IsInt(b.severity)

RECURSIVE CountRaises(_, _, _)
\* the loop of lines 72-87 over bs[i..] ends in that ValueError
CountRaises(acc, bs, i) ==
  IF i > Len(bs) THEN FALSE
  ELSE IF IntRaises(acc, bs[i]) THEN TRUE
  ELSE CountRaises(CountBarrier(acc, bs[i]), bs, i + 1)

\* the loop over the match list raises; the list is walked only when it
\* holds a severity int() rejects
SeverityRaises(found) ==
  /\ {i \in 1..Len(found) : found[i].severity # "" /\ ~IsInt(found[i].severity)} # {}
  /\ CountRaises(EmptyAcc, found, 1)

\* the vote that takes the first key of the dict, whatever its count
MostCommonFirstLabel(ns) == IF ns = <<>> THEN None ELSE ns[1].name

\* the vote that takes the last of the keys with the largest count
MostCommonLastOfTies(ns) ==
  IF ns = <<>> THEN None
  ELSE LET i == CHOOSE j \in 1..Len(ns) :
                  /\ \A k \in 1..Len(ns) : ns[k].n <= ns[j].n
                  /\ \A k \in (j + 1)..Len(ns) : ns[k].n < ns[j].n
       IN  ns[i].name

\* the vote with the empty string, not None, for a stop without a vote
MostCommonEmptyLabel(ns) ==
  IF ns = <<>> THEN ""
  ELSE LET i == CHOOSE j \in 1..Len(ns) :
                  /\ \A k \in 1..Len(ns) : ns[k].n <= ns[j].n
                  /\ \A k \in 1..(j - 1) : ns[k].n < ns[j].n
       IN  ns[i].name

\* max(neighborhoods, key=neighborhoods.get) if neighborhoods else None:
\* the first key, in insertion order, whose count is the largest
MostCommon(ns) ==
  IF ns = <<>> THEN None
  ELSE LET i == CHOOSE j \in 1..Len(ns) :
                  /\ \A k \in 1..Len(ns) : ns[k].n <= ns[j].n
                  /\ \A k \in 1..(j - 1) : ns[k].n < ns[j].n
       IN  ns[i].name

\* {str(k): v for k, v in sorted(severity_counts.items())}
SeverityMap(sc) == [k \in {StrOf(j) : j \in DOMAIN sc} |-> sc[IntOf(k)]]

\* lines 92-102
StopEntry(s, rm, acc) ==
  [id              |-> s.STOP_ID,
   lat             |-> s.lat,
   lon             |-> s.lon,
   routes          |-> Sorted(RoutesOf(rm, s.STOP_ID)),
   neighborhood    |-> MostCommon(acc.neighborhoods),
   barrier_types   |-> SortedLabels(acc.barrier_types),
   severity        |-> SeverityMap(acc.severity_counts),
   total_barriers  |-> Cardinality(acc.barrier_ids)]

----------------------------------------------------------------------------
(* Rollups, lines 112-138 and 146-164 *)

\* sum(v for k, v in s["severity"].items() if int(k) >= 3), lines 116 and 148
Severe(s) ==
  SumOver(s.severity, {k \in DOMAIN s.severity : IntOf(k) >= MinSeverity})

\* index of the bucket of `key` in a list of buckets, 0 when there is none
BucketIndex(agg, key) ==
  IF \E i \in 1..Len(agg) : agg[i].key = key
  THEN CHOOSE i \in 1..Len(agg) : agg[i].key = key
  ELSE 0

\* lines 114-124 without the severe == 0 test of lines 117-118
NbhAddKeepsZero(agg, s) ==
  IF s.neighborhood = None \/ s.neighborhood = "" THEN agg
  ELSE LET fresh == [key |-> s.neighborhood, lat_sum |-> 0, lon_sum |-> 0,
                     count |-> 0, barriers |-> 0, stops |-> 0]
           a == IF BucketIndex(agg, s.neighborhood) = 0 THEN Append(agg, fresh) ELSE agg
           i == BucketIndex(a, s.neighborhood)
       IN  [a EXCEPT ![i] = [key      |-> @.key,
                             lat_sum  |-> @.lat_sum + s.lat,
                             lon_sum  |-> @.lon_sum + s.lon,
                             count    |-> @.count + 1,
                             barriers |-> @.barriers + Severe(s),
                             stops    |-> @.stops + 1]]

\* lines 114-124 with every severity level added to the barrier count
NbhAddAllSeverities(agg, s) ==
  IF s.neighborhood = None \/ s.neighborhood = "" THEN agg
  ELSE IF Severe(s) = 0 THEN agg
  ELSE LET fresh == [key |-> s.neighborhood, lat_sum |-> 0, lon_sum |-> 0,
                     count |-> 0, barriers |-> 0, stops |-> 0]
           a == IF BucketIndex(agg, s.neighborhood) = 0 THEN Append(agg, fresh) ELSE agg
           i == BucketIndex(a, s.neighborhood)
       IN  [a EXCEPT ![i] = [key      |-> @.key,
                             lat_sum  |-> @.lat_sum + s.lat,
                             lon_sum  |-> @.lon_sum + s.lon,
                             count    |-> @.count + 1,
                             barriers |-> @.barriers + s.total_barriers,
                             stops    |-> @.stops + 1]]

\* lines 114-124 for one StopRecord
NbhAdd(agg, s) ==
  IF s.neighborhood = None \/ s.neighborhood = "" THEN agg
  ELSE IF Severe(s) = 0 THEN agg
  ELSE LET fresh == [key |-> s.neighborhood, lat_sum |-> 0, lon_sum |-> 0,
                     count |-> 0, barriers |-> 0, stops |-> 0]
           a == IF BucketIndex(agg, s.neighborhood) = 0 THEN Append(agg, fresh) ELSE agg
           i == BucketIndex(a, s.neighborhood)
       IN  [a EXCEPT ![i] = [key      |-> @.key,
                             lat_sum  |-> @.lat_sum + s.lat,
                             lon_sum  |-> @.lon_sum + s.lon,
                             count    |-> @.count + 1,
                             barriers |-> @.barriers + Severe(s),
                             stops    |-> @.stops + 1]]

RECURSIVE NbhAggOf(_, _, _, _)
\* NbhAdd folded over sd[lo..hi], left to right
NbhAggOf(agg, sd, lo, hi) ==
  IF lo > hi THEN agg
  ELSE IF lo = hi THEN NbhAdd(agg, sd[lo])
  ELSE LET mid  == (lo + hi) \div 2
           left == NbhAggOf(agg, sd, lo, mid)
       IN  IF DOMAIN left = DOMAIN left THEN NbhAggOf(left, sd, mid + 1, hi) ELSE left

\* lines 130-137; lat and lon in units of 1e-6 degree, friction_intensity in
\* tenths
NbhEntry(n) ==
  [name               |-> n.key,
   lat                |-> RoundHalfEven(100 * n.lat_sum, n.count),
   lon                |-> RoundHalfEven(100 * n.lon_sum, n.count),
   impacted_stops     |-> n.stops,
   total_barriers     |-> n.barriers,
   friction_intensity |-> RoundHalfEven(10 * n.barriers, n.stops)]

\* lines 126-137
NbhEntries(agg) ==
  LET kept == SelectSeq(agg, LAMBDA n : n.count # 0)
  IN  [i \in 1..Len(kept) |-> NbhEntry(kept[i])]

\* line 138
SortNeighborhoods(s) == SortDesc(s, [i \in 1..Len(s) |-> s[i].friction_intensity])

\* line 164 without reverse=True
SortRoutesAscending(s) == SortDesc(s, [i \in 1..Len(s) |-> 0 - s[i].total_friction])

\* line 164
SortRoutes(s) == SortDesc(s, [i \in 1..Len(s) |-> s[i].total_friction])

\* lines 148-154 for one StopRecord and the routes rs[i..] of its list
RECURSIVE RouteAddAll(_, _, _, _)
RouteAddAll(agg, rs, i, severe) ==
  IF i > Len(rs) THEN agg
  ELSE LET fresh == [key |-> rs[i], total_friction |-> 0, impacted_stops |-> 0]
           a == IF BucketIndex(agg, rs[i]) = 0 THEN Append(agg, fresh) ELSE agg
           j == BucketIndex(a, rs[i])
       IN  RouteAddAll([a EXCEPT ![j] = [key            |-> @.key,
                                         total_friction |-> @.total_friction + severe,
                                         impacted_stops |-> @.impacted_stops + 1]],
                       rs, i + 1, severe)

\* lines 148-154 with only the first route of the stop served
RouteAddFirstRouteOnly(agg, s) ==
  IF Severe(s) = 0 \/ s.routes = <<>> THEN agg
  ELSE RouteAddAll(agg, <<s.routes[1]>>, 1, Severe(s))

\* lines 148-154 with total_friction counting the stop instead of its barriers
RouteAddCountsStops(agg, s) ==
  IF Severe(s) = 0 THEN agg ELSE RouteAddAll(agg, s.routes, 1, 1)

\* lines 148-154 without the severe == 0 test of lines 149-150
RouteAddKeepsZero(agg, s) == RouteAddAll(agg, s.routes, 1, Severe(s))

\* lines 148-154 with total_friction assigned, not added to
RouteAddOverwrites(agg, s) ==
  IF Severe(s) = 0 THEN agg
  ELSE LET a == RouteAddAll(agg, s.routes, 1, 0)
       IN  [i \in 1..Len(a) |->
              IF a[i].key \in Range(s.routes)
              THEN [a[i] EXCEPT !.total_friction = Severe(s)]
              ELSE a[i]]

RouteAdd(agg, s) ==
  IF Severe(s) = 0 THEN agg ELSE RouteAddAll(agg, s.routes, 1, Severe(s))

RECURSIVE RouteAggOf(_, _, _, _)
\* RouteAdd folded over sd[lo..hi], left to right
RouteAggOf(agg, sd, lo, hi) ==
  IF lo > hi THEN agg
  ELSE IF lo = hi THEN RouteAdd(agg, sd[lo])
  ELSE LET mid  == (lo + hi) \div 2
           left == RouteAggOf(agg, sd, lo, mid)
       IN  IF DOMAIN left = DOMAIN left THEN RouteAggOf(left, sd, mid + 1, hi) ELSE left

\* lines 158-163; friction_per_stop in hundredths
RouteEntry(r) ==
  [route             |-> r.key,
   total_friction    |-> r.total_friction,
   impacted_stops    |-> r.impacted_stops,
   friction_per_stop |-> IF r.impacted_stops # 0
                         THEN RoundHalfEven(100 * r.total_friction, r.impacted_stops)
                         ELSE 0]

RouteEntries(agg) == [i \in 1..Len(agg) |-> RouteEntry(agg[i])]

----------------------------------------------------------------------------
(* main(), lines 24-170 *)

\* lines 33-35
BuildRouteMap ==
  /\ pc = "routes"
  /\ route_map' = BuildRouteMapFrom(EmptyMap, routes, 1, Len(routes))
  /\ pc' = "index"
  /\ UNCHANGED <<hash_seed, previous, threshold, barriers, stops, routes,
                 barrier_grid, nearby_barriers,
                 counted, stop_data, nbh_agg, neighborhoods_out, route_agg,
                 routes_out, written>>

\* the barrier rows float() raises on at lines 41-42
BadBarrierRows ==
  {i \in 1..Len(barriers) : ~(IsFloat(barriers[i].lon) /\ IsFloat(barriers[i].lat))}

\* lines 39-44
BuildIndex ==
  /\ pc = "index"
  /\ BadBarrierRows = {}
  /\ barrier_grid' = BuildGridFrom(EmptyMap, barriers, 1, Len(barriers))
  /\ pc' = "join"
  /\ UNCHANGED <<hash_seed, previous, threshold, barriers, stops, routes,
                 route_map, nearby_barriers,
                 counted, stop_data, nbh_agg, neighborhoods_out, route_agg,
                 routes_out, written>>

\* lines 39-44 when float() raises on a coordinate of some barrier row: the
\* rows ahead of it are in the dict, the run ends in the ValueError
BuildIndexFails ==
  /\ pc = "index"
  /\ BadBarrierRows # {}
  /\ barrier_grid' = BuildGridFrom(EmptyMap, barriers, 1, Min(BadBarrierRows) - 1)
  /\ pc' = "failed"
  /\ UNCHANGED <<hash_seed, previous, threshold, barriers, stops, routes,
                 route_map, nearby_barriers,
                 counted, stop_data, nbh_agg, neighborhoods_out, route_agg,
                 routes_out, written>>

\* one iteration of the loop of lines 49-103
JoinStop ==
  /\ pc = "join"
  /\ Len(stop_data) < Len(stops)
  /\ LET s     == stops[Len(stop_data) + 1]
         found == NearbyBarriers(barrier_grid, s.lon, s.lat, threshold)
         acc   == CountAll(EmptyAcc, found, 1, Len(found))
     IN  /\ IsFloat(s.lat) /\ IsFloat(s.lon)
         /\ ~SeverityRaises(found)
         /\ barrier_grid' = GridAfterScan(barrier_grid, ScanCells(s.lon, s.lat), 1)
         /\ nearby_barriers' = found
         /\ counted' = acc.counted
         /\ stop_data' = Append(stop_data, StopEntry(s, route_map, acc))
  /\ UNCHANGED <<hash_seed, previous, threshold, barriers, stops, routes,
                 pc, route_map,
                 nbh_agg, neighborhoods_out, route_agg, routes_out, written>>

\* that iteration when float() raises on the stop's coordinates (lines
\* 50-51) or int() on a severity (line 82): the run ends in the ValueError
JoinStopFails ==
  /\ pc = "join"
  /\ Len(stop_data) < Len(stops)
  /\ LET s     == stops[Len(stop_data) + 1]
         found == NearbyBarriers(barrier_grid, s.lon, s.lat, threshold)
     IN  \/ ~(IsFloat(s.lat) /\ IsFloat(s.lon))
         \/ SeverityRaises(found)
  /\ pc' = "failed"
  /\ UNCHANGED <<hash_seed, previous, threshold, barriers, stops, routes,
                 route_map, barrier_grid, nearby_barriers,
                 counted, stop_data, nbh_agg, neighborhoods_out, route_agg,
                 routes_out, written>>

\* lines 106-107
WriteStops ==
  /\ pc = "join"
  /\ Len(stop_data) = Len(stops)
  /\ written' = Append(written, "stops.json")
  /\ pc' = "agg_nbh"
  /\ UNCHANGED <<hash_seed, previous, threshold, barriers, stops, routes,
                 route_map, barrier_grid,
                 nearby_barriers, counted, stop_data, nbh_agg, neighborhoods_out,
                 route_agg, routes_out>>

\* line 106 when open() raises OSError: no artifact is there yet
WriteStopsFails ==
  /\ pc = "join"
  /\ Len(stop_data) = Len(stops)
  /\ pc' = "failed"
  /\ UNCHANGED <<hash_seed, previous, threshold, barriers, stops, routes,
                 route_map, barrier_grid,
                 nearby_barriers, counted, stop_data, nbh_agg, neighborhoods_out,
                 route_agg, routes_out, written>>

\* lines 112-138
AggregateNeighborhoods ==
  /\ pc = "agg_nbh"
  /\ nbh_agg' = NbhAggOf(<<>>, stop_data, 1, Len(stop_data))
  /\ neighborhoods_out' = SortNeighborhoods(NbhEntries(nbh_agg'))
  /\ pc' = "write_nbh"
  /\ UNCHANGED <<hash_seed, previous, threshold, barriers, stops, routes,
                 route_map, barrier_grid,
                 nearby_barriers, counted, stop_data, route_agg, routes_out, written>>

\* lines 140-141
WriteNeighborhoods ==
  /\ pc = "write_nbh"
  /\ written' = Append(written, "neighborhoods.json")
  /\ pc' = "agg_routes"
  /\ UNCHANGED <<hash_seed, previous, threshold, barriers, stops, routes,
                 route_map, barrier_grid,
                 nearby_barriers, counted, stop_data, nbh_agg, neighborhoods_out,
                 route_agg, routes_out>>

\* line 140 when open() raises OSError
WriteNeighborhoodsFails ==
  /\ pc = "write_nbh"
  /\ pc' = "failed"
  /\ UNCHANGED <<hash_seed, previous, threshold, barriers, stops, routes,
                 route_map, barrier_grid,
                 nearby_barriers, counted, stop_data, nbh_agg, neighborhoods_out,
                 route_agg, routes_out, written>>

\* lines 146-164
AggregateRoutes ==
  /\ pc = "agg_routes"
  /\ route_agg' = RouteAggOf(<<>>, stop_data, 1, Len(stop_data))
  /\ routes_out' = SortRoutes(RouteEntries(route_agg'))
  /\ pc' = "write_routes"
  /\ UNCHANGED <<hash_seed, previous, threshold, barriers, stops, routes,
                 route_map, barrier_grid,
                 nearby_barriers, counted, stop_data, nbh_agg, neighborhoods_out,
                 written>>

\* lines 166-167
WriteRoutes ==
  /\ pc = "write_routes"
  /\ written' = Append(written, "routes.json")
  /\ pc' = "done"
  /\ UNCHANGED <<hash_seed, previous, threshold, barriers, stops, routes,
                 route_map, barrier_grid,
                 nearby_barriers, counted, stop_data, nbh_agg, neighborhoods_out,
                 route_agg, routes_out>>

\* line 166 when open() raises OSError
WriteRoutesFails ==
  /\ pc = "write_routes"
  /\ pc' = "failed"
  /\ UNCHANGED <<hash_seed, previous, threshold, barriers, stops, routes,
                 route_map, barrier_grid,
                 nearby_barriers, counted, stop_data, nbh_agg, neighborhoods_out,
                 route_agg, routes_out, written>>

\* the program started again on the files of the run that has ended: a new
\* process, with a hash seed of its own; the artifacts of the first run are
\* kept aside
Rerun ==
  /\ pc = "done"
  /\ previous = <<>>
  /\ previous' = <<stop_data, neighborhoods_out, routes_out>>
  /\ hash_seed' \in HashSeeds
  /\ pc' = "routes"
  /\ route_map' = EmptyMap
  /\ barrier_grid' = EmptyMap
  /\ nearby_barriers' = <<>>
  /\ counted' = <<>>
  /\ stop_data' = <<>>
  /\ nbh_agg' = <<>>
  /\ neighborhoods_out' = <<>>
  /\ route_agg' = <<>>
  /\ routes_out' = <<>>
  /\ written' = <<>>
  /\ UNCHANGED <<threshold, barriers, stops, routes>>

\* the run with every read and write of a file succeeding and every row
\* well-formed
Next ==
  \/ BuildRouteMap
  \/ BuildIndex
  \/ JoinStop
  \/ WriteStops
  \/ AggregateNeighborhoods
  \/ WriteNeighborhoods
  \/ AggregateRoutes
  \/ WriteRoutes

\* the run with rows float() or int() raise on
NextRows ==
  \/ Next
  \/ BuildIndexFails
  \/ JoinStopFails

\* the run with an output file that cannot be opened for writing
NextFiles ==
  \/ Next
  \/ WriteStopsFails
  \/ WriteNeighborhoodsFails
  \/ WriteRoutesFails

\* the program run twice on the same files
NextTwice ==
  \/ Next
  \/ Rerun

\* the state of main() once the three CSVs are loaded (lines 26-30)
Loaded(thr, bs, ss, rs) ==
  /\ hash_seed = 0
  /\ previous = <<>>
  /\ threshold = thr
  /\ barriers = bs
  /\ stops = ss
  /\ routes = rs
  /\ pc = "routes"
  /\ route_map = EmptyMap
  /\ barrier_grid = EmptyMap
  /\ nearby_barriers = <<>>
  /\ counted = <<>>
  /\ stop_data = <<>>
  /\ nbh_agg = <<>>
  /\ neighborhoods_out = <<>>
  /\ route_agg = <<>>
  /\ routes_out = <<>>
  /\ written = <<>>

----------------------------------------------------------------------------
(* Input family of Spec: one stop, barrier rows of every attribute mix *)

\* the type label of a barrier is the same in each of its rows
LabelOf(id) == IF id % 2 = 1 THEN "CurbRamp" ELSE "NoCurbRamp"

BarrierRow(p, t, id, sv, nb) ==
  [lon |-> p[1], lat |-> p[2], is_temporary |-> t, attribute_id |-> id,
   severity |-> sv, label_type |-> LabelOf(id), neighborhood |-> nb]

\* 0.0001 and 0.0003 degree away from the stop at the origin: matched
NearPosition == <<-1, 3>>

\* 0.0006 degree away on one axis: in the 3x3 block, outside the box
FarPosition == <<6, 0>>

BarrierRows ==
  {BarrierRow(NearPosition, t, id, sv, nb) :
     t \in {"true", "false"}, id \in {1, 2}, sv \in {"", "2", "3"},
     nb \in {"", "Ballard"}}
  \cup {BarrierRow(FarPosition, "false", id, "3", "Ballard") : id \in {1, 2}}

OneStop == <<[STOP_ID |-> 1, lat |-> 0, lon |-> 0]>>

Init ==
  \E bs \in SeqsUpTo(BarrierRows, MaxBarriers) :
    Loaded(Threshold, bs, OneStop, <<[STOP_ID |-> 1, ROUTE_NUM |-> 1]>>)

Spec == Init /\ [][Next]_vars

\* the same inputs, run where an output file may not open
SpecFiles == Init /\ [][NextFiles]_vars

----------------------------------------------------------------------------
(* Input family of SpecRows: barrier rows near the first stop with a       *)
(* longitude float() rejects or a severity int() rejects among them; no    *)
(* stop, some stops, or one stop with a latitude float() rejects           *)

MalformedRows ==
  {[BarrierRow(NearPosition, t, id, sv, "Ballard") EXCEPT !.lon = x] :
     t \in {"true", "false"}, id \in {1, 2}, sv \in {"3", "high"},
     x \in {NearPosition[1], NoFloat}}

StopFiles ==
  {[k \in 1..n |-> [STOP_ID |-> k, lat |-> 0, lon |-> 8 * (k - 1)]] : n \in 0..NumStops}
  \cup {<<[STOP_ID |-> 1, lat |-> NoFloat, lon |-> 0]>>}

InitRows ==
  \E bs \in SeqsUpTo(MalformedRows, MaxBarriers) :
    \E ss \in StopFiles :
      Loaded(Threshold, bs, ss, <<[STOP_ID |-> 1, ROUTE_NUM |-> 1]>>)

SpecRows == InitRows /\ [][NextRows]_vars

----------------------------------------------------------------------------
(* Input families of SpecNbh and SpecRoutes: NumStops stops in a row,      *)
(* 0.0008 degree apart, and barriers that match one stop or two            *)

ClusterStops == [k \in 1..NumStops |-> [STOP_ID |-> k, lat |-> 0, lon |-> 8 * (k - 1)]]

\* 0.0002 degree west of stop k: matches stop k alone
OwnPositions == {<<8 * (k - 1) - 2, 0>> : k \in 1..NumStops}

\* halfway between stop k and stop k + 1: matches both
SharedPositions == {<<8 * (k - 1) + 4, 0>> : k \in 1..(NumStops - 1)}

\* attribute_id is unique per barrier: row i of the file carries id i
WithIds(rows) ==
  [i \in 1..Len(rows) |->
     [rows[i] EXCEPT !.attribute_id = i, !.label_type = LabelOf(i)]]

NbhRows ==
  {BarrierRow(p, "false", 0, sv, nb) :
     p \in OwnPositions \cup SharedPositions, sv \in {"2", "3"},
     nb \in {"", "Ballard", "Fremont"}}

InitNbh ==
  \E bs \in SeqsUpTo(NbhRows, MaxBarriers) :
    Loaded(Threshold, WithIds(bs), ClusterStops, <<[STOP_ID |-> 1, ROUTE_NUM |-> 1]>>)

SpecNbh == InitNbh /\ [][Next]_vars

RouteRows ==
  {BarrierRow(p, "false", 0, sv, "Ballard") :
     p \in OwnPositions \cup SharedPositions, sv \in {"2", "3"}}

\* the rows of the stop/route file for the stops k..NumStops, stop k served
\* by the routes f[k], its higher route code first
RECURSIVE RouteFile(_, _)
RouteFile(f, k) ==
  IF k > NumStops THEN <<>>
  ELSE (IF 2 \in f[k] THEN <<[STOP_ID |-> k, ROUTE_NUM |-> 2]>> ELSE <<>>)
       \o (IF 1 \in f[k] THEN <<[STOP_ID |-> k, ROUTE_NUM |-> 1]>> ELSE <<>>)
       \o RouteFile(f, k + 1)

InitRoutes ==
  \E bs \in SeqsUpTo(RouteRows, MaxBarriers) :
    \E f \in [1..NumStops -> SUBSET {1, 2}] :
      Loaded(Threshold, WithIds(bs), ClusterStops, RouteFile(f, 1))

SpecRoutes == InitRoutes /\ [][Next]_vars

\* barriers of severity 3 in one neighborhood or the other
LabelledRows ==
  {BarrierRow(p, "false", 0, "3", nb) :
     p \in OwnPositions \cup SharedPositions, nb \in {"Ballard", "Fremont"}}

\* every stop served by the routes 2 and 1; the program is run twice
InitTwice ==
  \E bs \in SeqsUpTo(LabelledRows, MaxBarriers) :
    Loaded(Threshold, WithIds(bs), ClusterStops,
           RouteFile([k \in 1..NumStops |-> {1, 2}], 1))

SpecTwice == InitTwice /\ [][NextTwice]_vars

\* route files for the rollup order: every stop on the routes 2 and 1, or
\* the stops alternating between route 1 and route 2, starting with either
OrderRouteFiles ==
  {RouteFile([k \in 1..NumStops |-> {1, 2}], 1),
   RouteFile([k \in 1..NumStops |-> {2 - (k % 2)}], 1),
   RouteFile([k \in 1..NumStops |-> {1 + (k % 2)}], 1)}

InitOrder ==
  \E bs \in SeqsUpTo(LabelledRows, MaxLabelled) :
    \E rs \in OrderRouteFiles :
      Loaded(Threshold, WithIds(bs), ClusterStops, rs)

SpecOrder == InitOrder /\ [][Next]_vars

----------------------------------------------------------------------------
(* Input family of SpecVote: one stop, and matched barriers in three cells *)
(* of its 3x3 block that vote for its neighborhood                         *)

\* the stop lies in cell (0, 0)
VoteStop == <<[STOP_ID |-> 1, lat |-> 4, lon |-> 4]>>

\* matched positions in the cells (0, 0), (0, 1) and (1, 0): visited in this
\* order by the scan
VotePositions == {<<3, 3>>, <<3, 6>>, <<6, 3>>}

\* rows that are counted, with a label or without one, and two rows that
\* are filtered out
VoteRows ==
  {BarrierRow(p, "false", 0, "3", nb) :
     p \in VotePositions, nb \in {"", "Ballard", "Fremont"}}
  \cup {BarrierRow(<<3, 3>>, "true", 0, "3", "Fremont"),
        BarrierRow(<<3, 3>>, "false", 0, "", "Fremont")}

\* the last row of the file is a second row of the barrier of the first row
RepeatFirstId(rows) ==
  [i \in 1..Len(rows) |->
     IF i = Len(rows) /\ i > 1
     THEN [rows[i] EXCEPT !.attribute_id = 1, !.label_type = LabelOf(1)]
     ELSE rows[i]]

InitVote ==
  \E bs \in SeqsUpTo(VoteRows, MaxLabelled) :
    \E repeated \in BOOLEAN :
      Loaded(Threshold,
             IF repeated THEN RepeatFirstId(WithIds(bs)) ELSE WithIds(bs),
             VoteStop, <<[STOP_ID |-> 1, ROUTE_NUM |-> 1]>>)

SpecVote == InitVote /\ [][Next]_vars

----------------------------------------------------------------------------
(* Input families of SpecGeo and SpecThr: a barrier on every point of a    *)
(* square lattice of 0.0001 degree, stops on the points around the origin  *)

\* the (2m+1)^2 lattice points of -m..m in both axes, row by row
LatticeBarriers(m) ==
  [i \in 1..((2 * m + 1) * (2 * m + 1)) |->
     BarrierRow(<<((i - 1) % (2 * m + 1)) - m, ((i - 1) \div (2 * m + 1)) - m>>,
                "false", i, "3", "Ballard")]

\* the stops of the row of latitude y, west to east
StopRowAt(y) ==
  [k \in 1..(2 * GeoStopMax + 1) |->
     [STOP_ID |-> k, lat |-> y, lon |-> k - 1 - GeoStopMax]]

\* a stop on every point of -GeoStopMax..GeoStopMax in both axes
AllStops ==
  [k \in 1..((2 * GeoStopMax + 1) * (2 * GeoStopMax + 1)) |->
     [STOP_ID |-> k,
      lat     |-> ((k - 1) \div (2 * GeoStopMax + 1)) - GeoStopMax,
      lon     |-> ((k - 1) % (2 * GeoStopMax + 1)) - GeoStopMax]]

InitGeo ==
  \E y \in (-GeoStopMax)..GeoStopMax :
    Loaded(Threshold, LatticeBarriers(GeoStopMax + Threshold + 1), StopRowAt(y),
           <<[STOP_ID |-> 1, ROUTE_NUM |-> 1]>>)

SpecGeo == InitGeo /\ [][Next]_vars

\* the threshold of line 63 taken from 0 to MaxThreshold
InitThr ==
  \E thr \in 0..MaxThreshold :
    Loaded(thr, LatticeBarriers(GeoStopMax + MaxThreshold), AllStops,
           <<[STOP_ID |-> 1, ROUTE_NUM |-> 1]>>)

SpecThr == InitThr /\ [][Next]_vars

----------------------------------------------------------------------------
(* Reference definitions used by the properties *)

\* the StopRecord appended last and the stop row it was built from
LastRecord == stop_data[Len(stop_data)]

LastStop == stops[Len(stop_data)]

\* a row that may contribute: not temporary, severity present
Qualifies(b) == b.is_temporary # "true" /\ b.severity # ""

IdsOf(rows) == {rows[i].attribute_id : i \in 1..Len(rows)}

HistogramSum(rec) == SumOver(rec.severity, DOMAIN rec.severity)

\* number of barriers of a StopRecord at the levels 3, 4 and 5
Impactful(rec) ==
  SumOver(rec.severity, DOMAIN rec.severity \cap {"3", "4", "5"})

\* how many rows of `rows` carry the severity string k
RowsAtSeverity(rows, k) == Cardinality({i \in 1..Len(rows) : rows[i].severity = k})

RowsInNeighborhood(rows, n) ==
  Cardinality({i \in 1..Len(rows) : rows[i].neighborhood = n})

\* the brute-force scan: every barrier row within thr on both axes
BruteForce(rows, lon, lat, thr) ==
  {b \in Range(rows) :
     /\ b.lon - lon <= thr /\ lon - b.lon <= thr
     /\ b.lat - lat <= thr /\ lat - b.lat <= thr}

\* the cells of the 3x3 block around the cell of (lon, lat)
Block(lon, lat) ==
  {<<grid_key(lon, lat)[1] + dx, grid_key(lon, lat)[2] + dy>> :
     dx \in {-1, 0, 1}, dy \in {-1, 0, 1}}

\* the sum of f(i) over 1..n, f given as a sequence
RECURSIVE SumTo(_, _)
SumTo(f, n) == IF n = 0 THEN 0 ELSE f[n] + SumTo(f, n - 1)

\* the StopRecords that carry the neighborhood label n / serve the route r
InNeighborhood(n) == {i \in 1..Len(stop_data) : stop_data[i].neighborhood = n}

OnRoute(r) == {i \in 1..Len(stop_data) : r \in Range(stop_data[i].routes)}

\* Impactful summed over the StopRecords of the index set S
ImpactfulOver(S) ==
  SumTo([i \in 1..Len(stop_data) |-> IF i \in S THEN Impactful(stop_data[i]) ELSE 0],
        Len(stop_data))

\* the severities of the barriers of a StopRecord at the levels 3, 4 and 5,
\* summed
SeveritySum(rec) ==
  SumTo([k \in 1..5 |->
           IF k >= 3 /\ StrOf(k) \in DOMAIN rec.severity
           THEN k * rec.severity[StrOf(k)] ELSE 0], 5)

SeveritySumOver(S) ==
  SumTo([i \in 1..Len(stop_data) |-> IF i \in S THEN SeveritySum(stop_data[i]) ELSE 0],
        Len(stop_data))

\* a stop has just been joined
Joined == pc = "join" /\ Len(stop_data) > 0

RolledUp == pc = "done"

----------------------------------------------------------------------------
(* C1: join equivalence at GRID_SIZE 0.001 and threshold 0.0005: the      *)
(* barriers collected from the 3x3 block around the stop's cell are        *)
(* exactly the barriers a scan of all the barriers finds within the        *)
(* threshold on both axes, each reported once; a barrier farther than the  *)
(* threshold on an axis is not reported, even from inside the block.       *)
C1_JoinEquivalence ==
  Joined =>
    /\ Range(nearby_barriers)
         = BruteForce(barriers, LastStop.lon, LastStop.lat, Threshold)
    /\ Len(nearby_barriers) = Cardinality(Range(nearby_barriers))
    /\ \A i \in 1..Len(nearby_barriers) :
         /\ Abs(nearby_barriers[i].lon - LastStop.lon) <= Threshold
         /\ Abs(nearby_barriers[i].lat - LastStop.lat) <= Threshold

\* a stop on a cell border matched a barrier that lies exactly the
\* threshold away in the next cell, and not the barrier 0.0006 away in that
\* cell
C1_Witness ==
  /\ Joined
  /\ LastStop.lon = GRID_SIZE \div 2
  /\ \E i \in 1..Len(nearby_barriers) :
       /\ nearby_barriers[i].lon = LastStop.lon + Threshold
       /\ grid_key(nearby_barriers[i].lon, nearby_barriers[i].lat)[1]
            = grid_key(LastStop.lon, LastStop.lat)[1] + 1
  /\ \E b \in Range(barriers) :
       /\ b.lon = LastStop.lon + Threshold + 1
       /\ b.lat = LastStop.lat
       /\ grid_key(b.lon, b.lat) \in Block(LastStop.lon, LastStop.lat)
       /\ b \notin Range(nearby_barriers)

\* every stop of the run got the barriers the brute-force scan finds
AllStopsAgree ==
  \A i \in 1..Len(stop_data) :
    stop_data[i].total_barriers
      = Cardinality(BruteForce(barriers, stops[i].lon, stops[i].lat, threshold))

(* C2 as stated: the 3x3 search agrees with the brute-force scan for all   *)
(* stops and barriers if the threshold is at most GRID_SIZE/2, and misses  *)
(* a match for some stop and barrier if it is larger.                      *)
C2_Original ==
  pc = "done" => (2 * threshold <= GRID_SIZE <=> AllStopsAgree)

(* C2, amended: the 3x3 search agrees with the brute-force scan for all    *)
(* stops and barriers whenever the threshold is below GRID_SIZE, so in     *)
(* particular when it is at most GRID_SIZE/2; it reports no false match at *)
(* any threshold; a match is missed for some stop and barrier when the     *)
(* threshold is GRID_SIZE or more.                                         *)
C2_CompleteBelowGridSize ==
  /\ Joined =>
       LET all == BruteForce(barriers, LastStop.lon, LastStop.lat, threshold)
       IN  /\ Range(nearby_barriers) \subseteq all
           /\ threshold < GRID_SIZE => Range(nearby_barriers) = all
  /\ pc = "done" => (threshold < GRID_SIZE <=> AllStopsAgree)

\* at a threshold of 0.0009 a stop on a cell border matched a barrier that
\* is 0.0009 away on both axes
C2_Witness ==
  /\ Joined
  /\ threshold = GRID_SIZE - 1
  /\ 2 * threshold > GRID_SIZE
  /\ LastStop.lon = GRID_SIZE \div 2
  /\ \E i \in 1..Len(nearby_barriers) :
       /\ nearby_barriers[i].lon = LastStop.lon + threshold
       /\ nearby_barriers[i].lat = LastStop.lat - threshold

(* C3: a barrier row whose is_temporary is "true" or whose severity is     *)
(* empty contributes nothing to a stop: the rows that reach the counting   *)
(* statements are all permanent and carry a severity, the histogram, the   *)
(* type set, the id count and the neighborhood vote are made of exactly    *)
(* those rows, and deleting the other rows from the match list leaves the  *)
(* StopRecord as it is.                                                    *)
C3_FilterSoundness ==
  Joined =>
    /\ \A i \in 1..Len(counted) : Qualifies(counted[i])
    /\ DOMAIN LastRecord.severity = {counted[i].severity : i \in 1..Len(counted)}
    /\ \A k \in DOMAIN LastRecord.severity :
         LastRecord.severity[k] = RowsAtSeverity(counted, k)
    /\ Range(LastRecord.barrier_types) = {counted[i].label_type : i \in 1..Len(counted)}
    /\ LastRecord.total_barriers = Cardinality(IdsOf(counted))
    /\ LastRecord.neighborhood # None =>
         RowsInNeighborhood(counted, LastRecord.neighborhood) > 0
    /\ LastRecord =
         StopEntry(LastStop, route_map,
                   CountAll(EmptyAcc, SelectSeq(nearby_barriers, Qualifies), 1,
                            Len(SelectSeq(nearby_barriers, Qualifies))))

\* a temporary row and a row without severity passed the bounding-box test
\* and the StopRecord is empty
C3_Witness ==
  /\ Joined
  /\ Len(nearby_barriers) = 2
  /\ nearby_barriers[1].is_temporary = "true"
  /\ nearby_barriers[1].severity = "3"
  /\ nearby_barriers[1].neighborhood = "Ballard"
  /\ nearby_barriers[2].is_temporary = "false"
  /\ nearby_barriers[2].severity = ""
  /\ LastRecord.total_barriers = 0
  /\ LastRecord.severity = [k \in {} |-> 0]
  /\ LastRecord.barrier_types = <<>>
  /\ LastRecord.neighborhood = None

(* C4: a barrier id contributes to a stop's histogram at most once: the    *)
(* counted rows have pairwise different ids, every histogram increment is  *)
(* one counted row, so the histogram never sums to more than the number of *)
(* distinct ids of the match list.                                         *)
C4_AtMostOncePerId ==
  Joined =>
    /\ \A i, j \in 1..Len(counted) :
         counted[i].attribute_id = counted[j].attribute_id => i = j
    /\ HistogramSum(LastRecord) = Len(counted)
    /\ HistogramSum(LastRecord) <= Cardinality(IdsOf(nearby_barriers))

\* the match list holds two qualifying rows of one id and one was counted
C4_Witness ==
  /\ Joined
  /\ \E i, j \in 1..Len(nearby_barriers) :
       /\ i < j
       /\ nearby_barriers[i].attribute_id = nearby_barriers[j].attribute_id
       /\ Qualifies(nearby_barriers[i])
       /\ Qualifies(nearby_barriers[j])
  /\ HistogramSum(LastRecord) = 1

(* C5: in every StopRecord total_barriers is the sum of all the counts of  *)
(* its severity histogram, at every severity level, and it is the number   *)
(* of distinct barrier ids that were counted.                              *)
C5_TotalIsHistogramSum ==
  /\ \A i \in 1..Len(stop_data) : stop_data[i].total_barriers = HistogramSum(stop_data[i])
  /\ Joined => LastRecord.total_barriers = Cardinality(IdsOf(counted))

\* two barriers counted, one of them below severity 3
C5_Witness ==
  /\ Joined
  /\ LastRecord.total_barriers = 2
  /\ "2" \in DOMAIN LastRecord.severity
  /\ "3" \in DOMAIN LastRecord.severity

(* C6 as stated: total_barriers is the number of distinct attribute_id     *)
(* values of the raw match list.                                           *)
C6_Original ==
  Joined => LastRecord.total_barriers = Cardinality(IdsOf(nearby_barriers))

(* C6, amended: total_barriers is the number of distinct attribute_id      *)
(* values among the rows of the raw match list that are not temporary and  *)
(* carry a severity; joining the stop again on the index as it is after    *)
(* the join gives the same total_barriers.                                 *)
C6_DedupOfQualifyingRows ==
  Joined =>
    /\ LastRecord.total_barriers
         = Cardinality(IdsOf(SelectSeq(nearby_barriers, Qualifies)))
    /\ LET again == NearbyBarriers(barrier_grid, LastStop.lon, LastStop.lat, threshold)
       IN  StopEntry(LastStop, route_map, CountAll(EmptyAcc, again, 1, Len(again))).total_barriers
             = LastRecord.total_barriers

\* a matched id is left out of the total because its only row is temporary
C6_Witness ==
  /\ Joined
  /\ Len(nearby_barriers) = 2
  /\ Cardinality(IdsOf(nearby_barriers)) = 2
  /\ LastRecord.total_barriers = 1

(* C7: a StopRecord contributes to the Neighborhoods or the Routes         *)
(* artifact only if it has a barrier of severity 3 or more: every entry of *)
(* either artifact is carried by such a StopRecord, and its impacted_stops *)
(* counts no other StopRecord.                                             *)
C7_RollupInclusion ==
  RolledUp =>
    /\ \A e \in Range(neighborhoods_out) :
         /\ \E i \in 1..Len(stop_data) :
              stop_data[i].neighborhood = e.name /\ Impactful(stop_data[i]) > 0
         /\ e.impacted_stops <=
              Cardinality({i \in 1..Len(stop_data) :
                             stop_data[i].neighborhood = e.name
                             /\ Impactful(stop_data[i]) > 0})
    /\ \A e \in Range(routes_out) :
         /\ \E i \in 1..Len(stop_data) :
              e.route \in Range(stop_data[i].routes) /\ Impactful(stop_data[i]) > 0
         /\ e.impacted_stops <=
              Cardinality({i \in 1..Len(stop_data) :
                             e.route \in Range(stop_data[i].routes)
                             /\ Impactful(stop_data[i]) > 0})

\* a stop on a route whose matched barriers are a temporary one and one of
\* severity 2 with a neighborhood label: both artifacts stay empty
C7_Witness ==
  /\ pc = "done"
  /\ Len(nearby_barriers) = 2
  /\ nearby_barriers[1].is_temporary = "true"
  /\ nearby_barriers[1].severity = "3"
  /\ LastRecord.neighborhood = "Ballard"
  /\ LastRecord.routes # <<>>
  /\ LastRecord.total_barriers = 1
  /\ neighborhoods_out = <<>>
  /\ routes_out = <<>>

(* C8: every entry of the Neighborhoods artifact has, as total_barriers,   *)
(* the barriers of severity 3 or more summed over exactly the StopRecords  *)
(* labelled with its name, and as impacted_stops the number of those       *)
(* StopRecords that have such a barrier; every label of such a StopRecord  *)
(* has an entry.                                                           *)
C8_NeighborhoodRollup ==
  RolledUp =>
    /\ \A e \in Range(neighborhoods_out) :
         /\ e.total_barriers = ImpactfulOver(InNeighborhood(e.name))
         /\ e.impacted_stops =
              Cardinality({i \in InNeighborhood(e.name) : Impactful(stop_data[i]) > 0})
    /\ \A i \in 1..Len(stop_data) :
         stop_data[i].neighborhood # None /\ Impactful(stop_data[i]) > 0
           => \E e \in Range(neighborhoods_out) : e.name = stop_data[i].neighborhood

\* two stops of one neighborhood that share a barrier of severity 3, one of
\* them with a barrier of severity 2 as well
C8_Witness ==
  /\ RolledUp
  /\ \E e \in Range(neighborhoods_out) : e.impacted_stops = 2 /\ e.total_barriers = 2
  /\ \E i \in 1..Len(stop_data) :
       stop_data[i].total_barriers = 2 /\ Impactful(stop_data[i]) = 1

(* C9: every entry of the Routes artifact has, as total_friction, the      *)
(* barriers of severity 3 or more summed over exactly the StopRecords      *)
(* whose route list holds its code, and as impacted_stops the number of    *)
(* those StopRecords that have such a barrier; a route list is the set of  *)
(* the codes of the stop's rows, and every code of a StopRecord with such  *)
(* a barrier has an entry.                                                 *)
C9_RouteRollup ==
  RolledUp =>
    /\ \A e \in Range(routes_out) :
         /\ e.total_friction = ImpactfulOver(OnRoute(e.route))
         /\ e.impacted_stops =
              Cardinality({i \in OnRoute(e.route) : Impactful(stop_data[i]) > 0})
    /\ \A i \in 1..Len(stop_data) :
         /\ Range(stop_data[i].routes)
              = {routes[j].ROUTE_NUM : j \in {n \in 1..Len(routes) :
                                                routes[n].STOP_ID = stop_data[i].id}}
         /\ Impactful(stop_data[i]) > 0 =>
              \A r \in Range(stop_data[i].routes) :
                \E e \in Range(routes_out) : e.route = r

\* a stop on two routes with one impactful barrier, and a stop without route
\* with two of them
C9_Witness ==
  /\ RolledUp
  /\ Len(routes_out) = 2
  /\ \A e \in Range(routes_out) : e.total_friction = 1 /\ e.impacted_stops = 1
  /\ \E i \in 1..Len(stop_data) :
       stop_data[i].routes = <<>> /\ Impactful(stop_data[i]) = 2

(* C10 as stated: total_friction of a route entry is the sum of the        *)
(* severity values of the barriers of severity 3 or more of the route's    *)
(* StopRecords.                                                            *)
C10_Original ==
  RolledUp =>
    \A e \in Range(routes_out) : e.total_friction = SeveritySumOver(OnRoute(e.route))

(* C10, amended: total_friction of a route entry is the number of the      *)
(* barriers of severity 3 or more of the route's StopRecords, each counted *)
(* as one whatever its severity; the sum of their severity values is at    *)
(* least three times as large.                                             *)
C10_FrictionCountsBarriers ==
  RolledUp =>
    \A e \in Range(routes_out) :
      /\ e.total_friction = ImpactfulOver(OnRoute(e.route))
      /\ MinSeverity * e.total_friction <= SeveritySumOver(OnRoute(e.route))

\* a route whose stops have three barriers of severity 3 between them
C10_Witness ==
  /\ RolledUp
  /\ \E e \in Range(routes_out) :
       /\ e.total_friction = 3
       /\ e.impacted_stops = 2
       /\ SeveritySumOver(OnRoute(e.route)) = 9

----------------------------------------------------------------------------
(* C11: all-or-nothing output: a run that has ended has written all three  *)
(* artifacts, or it has failed and written none of them; no run fails      *)
(* between the first artifact and the last.                                *)

C11_AllOrNothing ==
  /\ pc = "done" => written = <<"stops.json", "neighborhoods.json", "routes.json">>
  /\ pc = "failed" => written = <<>>

----------------------------------------------------------------------------
(* C12: a threshold above GRID_SIZE/2 is rejected at startup: with such a  *)
(* threshold the run never gets as far as a built index, and it writes no  *)
(* artifact.                                                               *)

C12_RejectedAtStartup ==
  2 * threshold > GRID_SIZE =>
    /\ pc \in {"routes", "index", "failed"}
    /\ barrier_grid = EmptyMap
    /\ written = <<>>

----------------------------------------------------------------------------
(* The pipeline as a function of its input files, for comparing a run with *)
(* the run on other files                                                  *)

\* the StopRecords of the stop rows ss joined with the barrier rows bs
StopDataOf(bs, ss, rm) ==
  LET g == BuildGridFrom(EmptyMap, bs, 1, Len(bs))
  IN  [i \in 1..Len(ss) |->
         LET found == NearbyBarriers(g, ss[i].lon, ss[i].lat, threshold)
         IN  StopEntry(ss[i], rm, CountAll(EmptyAcc, found, 1, Len(found)))]

NeighborhoodsOf(sd) == SortNeighborhoods(NbhEntries(NbhAggOf(<<>>, sd, 1, Len(sd))))

RoutesArtifactOf(sd) == SortRoutes(RouteEntries(RouteAggOf(<<>>, sd, 1, Len(sd))))

AllWritten == written = <<"stops.json", "neighborhoods.json", "routes.json">>

\* a row the loader is to skip: a coordinate that is no number, or a
\* severity that is neither empty nor an integer
MalformedBarrier(b) ==
  \/ ~IsFloat(b.lon) \/ ~IsFloat(b.lat)
  \/ b.severity # "" /\ ~IsInt(b.severity)

MalformedStop(t) == ~IsFloat(t.lon) \/ ~IsFloat(t.lat)

WellFormedBarriers == SelectSeq(barriers, LAMBDA b : ~MalformedBarrier(b))

WellFormedStops == SelectSeq(stops, LAMBDA t : ~MalformedStop(t))

----------------------------------------------------------------------------
(* C13: a malformed input row is skipped and is not fatal: the run does    *)
(* not fail, and once it has ended its three artifacts are those of the    *)
(* run on the input without the malformed rows.                            *)

C13_MalformedRowsSkipped ==
  /\ pc # "failed"
  /\ pc = "done" =>
       /\ AllWritten
       /\ stop_data = StopDataOf(WellFormedBarriers, WellFormedStops, route_map)
       /\ neighborhoods_out = NeighborhoodsOf(stop_data)
       /\ routes_out = RoutesArtifactOf(stop_data)

----------------------------------------------------------------------------
(* C14: empty inputs are not an error. With no stop row the run ends with  *)
(* three empty artifacts. With no barrier row the run ends with one        *)
(* StopRecord per stop, each with an empty severity map, no barrier type,  *)
(* no neighborhood and total_barriers 0, and with empty neighborhood and   *)
(* route artifacts. In both cases the run cannot fail and cannot stop      *)
(* before its end.                                                         *)

DegenerateRecord(rec) ==
  /\ DOMAIN rec.severity = {}
  /\ rec.barrier_types = <<>>
  /\ rec.neighborhood = None
  /\ rec.total_barriers = 0

C14_EmptyInputs ==
  /\ (stops = <<>> /\ BadBarrierRows = {}) =>
       /\ pc # "failed"
       /\ pc # "done" => ENABLED NextRows
       /\ pc = "done" =>
            /\ AllWritten
            /\ stop_data = <<>> /\ neighborhoods_out = <<>> /\ routes_out = <<>>
  /\ (barriers = <<>> /\ WellFormedStops = stops) =>
       /\ pc # "failed"
       /\ pc # "done" => ENABLED NextRows
       /\ pc = "done" =>
            /\ AllWritten
            /\ Len(stop_data) = Len(stops)
            /\ \A i \in 1..Len(stop_data) :
                  stop_data[i].id = stops[i].STOP_ID /\ DegenerateRecord(stop_data[i])
            /\ neighborhoods_out = <<>> /\ routes_out = <<>>

\* the run on NumStops stops and an empty barrier file has ended
C14_Witness ==
  /\ pc = "done"
  /\ barriers = <<>>
  /\ Len(stop_data) = NumStops
  /\ \A i \in 1..NumStops : stop_data[i].total_barriers = 0
  /\ AllWritten

----------------------------------------------------------------------------
(* C15: determinism: the program run a second time on the same files, in a *)
(* process whose string hashes are salted with any seed, ends with the     *)
(* same three artifacts as the first run: the same entries in the same     *)
(* order, with the same neighborhood labels.                               *)

C15_Deterministic ==
  (pc = "done" /\ previous # <<>>) =>
    previous = <<stop_data, neighborhoods_out, routes_out>>

\* the second run has ended under the other hash seed, with a stop on two
\* routes and with two barrier types, and with a neighborhood and a route
\* rolled up
C15_Witness ==
  /\ pc = "done"
  /\ previous # <<>>
  /\ hash_seed = 1
  /\ Len(stop_data[1].routes) = 2
  /\ Len(stop_data[1].barrier_types) = 2
  /\ stop_data[1].neighborhood # None
  /\ neighborhoods_out # <<>>
  /\ Len(routes_out) = 2

----------------------------------------------------------------------------
(* C16: output ordering: in the neighborhoods artifact no entry has a      *)
(* lower friction_intensity than the entry behind it, and in the routes    *)
(* artifact no entry has a lower total_friction than the entry behind it.  *)

C16_OutputOrdering ==
  RolledUp =>
    /\ \A i \in 1..(Len(neighborhoods_out) - 1) :
          neighborhoods_out[i].friction_intensity
            >= neighborhoods_out[i + 1].friction_intensity
    /\ \A i \in 1..(Len(routes_out) - 1) :
          routes_out[i].total_friction >= routes_out[i + 1].total_friction

\* two neighborhoods and two routes, each pair with different keys, and the
\* bucket made first written last in both artifacts
C16_Witness ==
  /\ RolledUp
  /\ Len(neighborhoods_out) = 2
  /\ neighborhoods_out[1].friction_intensity > neighborhoods_out[2].friction_intensity
  /\ nbh_agg[1].key = neighborhoods_out[2].name
  /\ Len(routes_out) = 2
  /\ routes_out[1].total_friction > routes_out[2].total_friction
  /\ route_agg[1].key = routes_out[2].route

----------------------------------------------------------------------------
(* C18: parallel safety of the join. The index is never modified after its *)
(* construction: from the first join on it is the index BuildIndex made,   *)
(* key for key, although empty cells have been queried. A StopRecord       *)
(* depends on that index and on its own stop row alone: the stops joined   *)
(* in any order, each record put at the place of its stop, give the list   *)
(* of StopRecords of the sequential run.                                   *)

BuiltIndex == BuildGridFrom(EmptyMap, barriers, 1, Len(barriers))

\* the orders in which the stops can be taken
Orders ==
  {o \in [1..Len(stops) -> 1..Len(stops)] :
     \A i, j \in 1..Len(stops) : o[i] = o[j] => i = j}

RECURSIVE JoinInOrder(_, _, _, _)
\* the records after the stops order[i..] are joined one after the other,
\* with the index handed from each join to the next
JoinInOrder(g, recs, order, i) ==
  IF i > Len(order) THEN recs
  ELSE LET s     == stops[order[i]]
           found == NearbyBarriers(g, s.lon, s.lat, threshold)
           rec   == StopEntry(s, route_map, CountAll(EmptyAcc, found, 1, Len(found)))
       IN  JoinInOrder(GridAfterScan(g, ScanCells(s.lon, s.lat), 1),
                       [recs EXCEPT ![order[i]] = rec], order, i + 1)

----------------------------------------------------------------------------
(* The voters of the stop joined last, read off its raw match list         *)

\* positions of the match list whose row is counted: not temporary, with a
\* severity, and no row before it counted for the same barrier
Voters ==
  {i \in 1..Len(nearby_barriers) :
     /\ Qualifies(nearby_barriers[i])
     /\ \A j \in 1..(i - 1) :
          ~(/\ Qualifies(nearby_barriers[j])
            /\ nearby_barriers[j].attribute_id = nearby_barriers[i].attribute_id)}

VotedLabels == {nearby_barriers[i].neighborhood : i \in Voters} \ {""}

VotesFor(n) == Cardinality({i \in Voters : nearby_barriers[i].neighborhood = n})

FirstVoteFor(n) == Min({i \in Voters : nearby_barriers[i].neighborhood = n})

\* the labels with the largest number of votes
Leaders == {n \in VotedLabels : \A o \in VotedLabels : VotesFor(o) <= VotesFor(n)}

----------------------------------------------------------------------------
(* C17: neighborhood label by plurality: when some counted barrier of the  *)
(* stop carries a neighborhood label, the label of the StopRecord is one   *)
(* of those labels and no other label has more counted barriers; the       *)
(* StopRecord has no neighborhood exactly when no counted barrier carries  *)
(* a label.                                                                *)

C17_PluralityLabel ==
  Joined =>
    /\ (VotedLabels = {}) <=> (LastRecord.neighborhood = None)
    /\ VotedLabels # {} => LastRecord.neighborhood \in Leaders

\* two votes beat one vote that was cast before them
C17_Witness ==
  /\ Joined
  /\ Len(nearby_barriers) = 3
  /\ Cardinality(VotedLabels) = 2
  /\ VotesFor(LastRecord.neighborhood) = 2
  /\ \E n \in VotedLabels :
       VotesFor(n) = 1 /\ FirstVoteFor(n) < FirstVoteFor(LastRecord.neighborhood)

----------------------------------------------------------------------------
(* C20: the plurality tie-break is first-seen. The match list of a stop    *)
(* holds the matched rows cell by cell, dx from -1 to 1 outermost, dy from *)
(* -1 to 1 inside it, and the rows of one cell in file order; among the    *)
(* labels with the largest number of counted barriers the StopRecord       *)
(* carries the one whose first counted barrier comes first in that list,   *)
(* whatever the alphabetical order of the labels.                          *)

\* the rows of the file in the cell numbered c of the block around the stop
\* joined last, and within the threshold of it, in file order
MatchedInCell(c) ==
  SelectSeq(barriers,
            LAMBDA b : /\ grid_key(b.lon, b.lat)
                            = <<grid_key(LastStop.lon, LastStop.lat)[1] + ((c - 1) \div 3) - 1,
                                grid_key(LastStop.lon, LastStop.lat)[2] + ((c - 1) % 3) - 1>>
                       /\ b.lon - LastStop.lon <= threshold
                       /\ LastStop.lon - b.lon <= threshold
                       /\ b.lat - LastStop.lat <= threshold
                       /\ LastStop.lat - b.lat <= threshold)

RECURSIVE MatchedFromCell(_)
MatchedFromCell(c) == IF c > 9 THEN <<>> ELSE MatchedInCell(c) \o MatchedFromCell(c + 1)

C20_FirstSeenTieBreak ==
  Joined =>
    /\ nearby_barriers = MatchedFromCell(1)
    /\ VotedLabels # {} =>
         /\ LastRecord.neighborhood \in Leaders
         /\ \A n \in Leaders :
              FirstVoteFor(LastRecord.neighborhood) <= FirstVoteFor(n)

\* a tie of one vote each: the file has the Ballard barrier first, the scan
\* meets the Fremont barrier first, and the StopRecord says Fremont
C20_Witness ==
  /\ Joined
  /\ Len(barriers) = 2
  /\ barriers[1].neighborhood = "Ballard"
  /\ barriers[2].neighborhood = "Fremont"
  /\ Leaders = {"Ballard", "Fremont"}
  /\ nearby_barriers = <<barriers[2], barriers[1]>>
  /\ LastRecord.neighborhood = "Fremont"

----------------------------------------------------------------------------
(* C19: rollup order independence. As claimed: for any permutation of the  *)
(* StopRecords the routes artifact is the same list, and the neighborhoods *)
(* artifact is the same list but for the centroids. As the program has it: *)
(* for any permutation both artifacts hold the same entries, the centroids *)
(* aside, and the same sequence of sort keys; entries with equal sort keys *)
(* may change places.                                                      *)

\* the StopRecords in the order o
Permuted(o) == [i \in 1..Len(stop_data) |-> stop_data[o[i]]]

\* the entries of a neighborhoods artifact without their centroids
WithoutCentroids(ns) ==
  [i \in 1..Len(ns) |->
     [name               |-> ns[i].name,
      impacted_stops     |-> ns[i].impacted_stops,
      total_barriers     |-> ns[i].total_barriers,
      friction_intensity |-> ns[i].friction_intensity]]

C19_Original ==
  RolledUp =>
    \A o \in Orders :
      /\ RoutesArtifactOf(Permuted(o)) = routes_out
      /\ WithoutCentroids(NeighborhoodsOf(Permuted(o))) = WithoutCentroids(neighborhoods_out)

C19_SameEntriesTiesAside ==
  RolledUp =>
    \A o \in Orders :
      LET rs == RoutesArtifactOf(Permuted(o))
          ns == WithoutCentroids(NeighborhoodsOf(Permuted(o)))
      IN  /\ Len(rs) = Len(routes_out)
          /\ Range(rs) = Range(routes_out)
          /\ \A i \in 1..Len(rs) : rs[i].total_friction = routes_out[i].total_friction
          /\ Len(ns) = Len(neighborhoods_out)
          /\ Range(ns) = Range(WithoutCentroids(neighborhoods_out))
          /\ \A i \in 1..Len(ns) :
                ns[i].friction_intensity = neighborhoods_out[i].friction_intensity

\* two routes of equal total_friction and two neighborhoods of equal
\* friction_intensity: the StopRecords taken in the opposite order give the
\* same entries in the opposite order
C19_Witness ==
  /\ RolledUp
  /\ Len(stop_data) = 2
  /\ Len(routes_out) = 2
  /\ routes_out[1].total_friction = routes_out[2].total_friction
  /\ RoutesArtifactOf(Reverse(stop_data)) = Reverse(routes_out)
  /\ Len(neighborhoods_out) = 2
  /\ neighborhoods_out[1].friction_intensity = neighborhoods_out[2].friction_intensity
  /\ NeighborhoodsOf(Reverse(stop_data)) = Reverse(neighborhoods_out)

----------------------------------------------------------------------------
(* C21: every entry of the neighborhoods artifact and of the routes        *)
(* artifact has impacted_stops >= 1 and a barrier total (total_barriers,   *)
(* total_friction) of at least impacted_stops: no bucket is divided by     *)
(* zero, friction_intensity is at least 1.0 and friction_per_stop at least *)
(* 1.00; no neighborhood name and no route code has two entries.           *)

C21_EntriesWellFormed ==
  RolledUp =>
    /\ \A i \in 1..Len(nbh_agg) : nbh_agg[i].count >= 1 /\ nbh_agg[i].stops >= 1
    /\ \A i \in 1..Len(route_agg) : route_agg[i].impacted_stops >= 1
    /\ \A i \in 1..Len(neighborhoods_out) :
          /\ neighborhoods_out[i].impacted_stops >= 1
          /\ neighborhoods_out[i].total_barriers >= neighborhoods_out[i].impacted_stops
          /\ neighborhoods_out[i].friction_intensity >= 10
          /\ \A j \in 1..Len(neighborhoods_out) :
                neighborhoods_out[i].name = neighborhoods_out[j].name => i = j
    /\ \A i \in 1..Len(routes_out) :
          /\ routes_out[i].impacted_stops >= 1
          /\ routes_out[i].total_friction >= routes_out[i].impacted_stops
          /\ routes_out[i].friction_per_stop >= 100
          /\ \A j \in 1..Len(routes_out) :
                routes_out[i].route = routes_out[j].route => i = j

\* two stops in one neighborhood and on two common routes, one of them with
\* a barrier below severity 3 beside its severe one: one neighborhood entry
\* and two route entries, of two stops each
C21_Witness ==
  /\ RolledUp
  /\ Len(neighborhoods_out) = 1
  /\ neighborhoods_out[1].impacted_stops = 2
  /\ Len(routes_out) = 2
  /\ \A i \in 1..2 : routes_out[i].impacted_stops = 2
  /\ \E k \in 1..Len(stop_data) : stop_data[k].total_barriers > Impactful(stop_data[k])

====
